---- MODULE Spec2Model ----
(***************************************************************************)
(* Model of src/services/analysisService.ts: one call of analyzeImage      *)
(* (image compression, bounded retry loop over fetch, response             *)
(* classification, backoff), one call of translateText or one call of      *)
(* compressImage; and of the state of the view of src/App.tsx.             *)
(*                                                                         *)
(* A behaviour starts with the arguments of one call chosen in Init and    *)
(* follows that call from one suspension point (await) to the next, or     *)
(* starts with the mounted view and follows the user's actions and the     *)
(* completions of the service calls.                                       *)
(***************************************************************************)
EXTENDS Integers, Sequences, FiniteSets, TLC

VARIABLES
    op,             \* which exported function this behaviour calls
    pc,             \* analyzeImage: "idle" | "call" | "done", or the await at which the
                    \* call is suspended: "compress" (line 74) | "fetch" (line 88) |
                    \* "text" (lines 95, 101, 106) | "sleep" (line 135)
    compressCalls,  \* history: how many times compressImage was called
    imageFile,      \* analyzeImage argument: the name of the File, split at its dots
    language,       \* analyzeImage argument
    formData,       \* the multipart body built at lines 77-79 (Null before that)
    attempt,        \* the loop counter of line 83
    lastError,      \* line 81: [null |-> TRUE] or [null |-> FALSE, message |-> ...]
    fetches,        \* history: one record per fetch() call, with what it got back
    delays,         \* history: the argument of each sleep() call, in order
    result,         \* how the analyzeImage promise settled
    tpc,            \* translateText: "idle" | "call" | "await" | "done"
    text,           \* translateText argument
    targetLanguage, \* translateText argument
    requests,       \* history: one record per generateContent() call
    completion,     \* history: what the translation service answered (or None)
    tresult,        \* how the translateText promise settled
    cpc,            \* compressImage: "idle" | "read" | "load" | "encode" | "done"
    width,          \* compressImage: img.width, the decoded image's width
    height,         \* compressImage: img.height
    canvas,         \* compressImage: the size given to the canvas (NoCanvas before)
    cresult,        \* how the compressImage promise settled
    selectedImage,  \* App state (line 11): the selected file, or NoImage
    analysisResult, \* App state (line 12): the report shown, or NullResult
    loading,        \* App state (line 13)
    error,          \* App state (line 14): "none" or the kind of message shown
    outputLanguage, \* App state (line 15)
    calls,          \* App: the service calls that have not settled yet, oldest first
    serviceFailed   \* App history: some service call rejected or gave its input back

vars == <<op, pc, compressCalls, imageFile, language, formData, attempt, lastError, fetches,
          delays, result, tpc, text, targetLanguage, requests, completion, tresult,
          cpc, width, height, canvas, cresult,
          selectedImage, analysisResult, loading, error, outputLanguage, calls,
          serviceFailed>>

avars == <<pc, compressCalls, imageFile, language, formData, attempt, lastError, fetches,
           delays, result>>

tvars == <<tpc, text, targetLanguage, requests, completion, tresult>>

cvars == <<cpc, width, height, canvas, cresult>>

uvars == <<selectedImage, analysisResult, loading, error, outputLanguage, calls,
          serviceFailed>>

\* What a step of analyzeImage, of translateText, of compressImage, of the App
\* view leaves alone.
exceptAnalyze == <<tvars, cvars, uvars>>

exceptTranslate == <<avars, cvars, uvars>>

exceptCompress == <<avars, tvars, uvars>>

exceptApp == <<avars, tvars, cvars>>

----------------------------------------------------------------------------
(* Program constants *)

MAX_RETRIES == 3

INITIAL_DELAY_MS == 1000

----------------------------------------------------------------------------
(* Values *)

\* lastError = null
Null == [null |-> TRUE, message |-> ""]

\* A promise that has not settled yet.
Pending == [kind |-> "pending", value |-> ""]

\* A promise resolved with v, or a block left by "return v".
Return(v) == [kind |-> "return", value |-> v]

\* A promise rejected with Error(m), or a block left by "throw new Error(m)".
Throw(m) == [kind |-> "throw", value |-> m]

Languages == {"English", "Hindi", "Bengali"}

\* File names, split at their dots: "leaf.png", "noext".
ImageFiles == {<<"leaf", "png">>, <<"noext">>}

\* What the promise of compressImage rejects with: the Errors of lines 37 and
\* 44 (no raster surface, no encoded output), the error event of the image
\* element when the file does not decode (line 58), or the progress event of
\* the FileReader when the file cannot be read (line 60).
CompressErrors == {"Could not get canvas context",
                   "Canvas to Blob conversion failed",
                   "[object Event]",
                   "[object ProgressEvent]"}

Statuses == {200, 299, 300, 400, 404, 499, 500}

\* Response.statusText as the server sends it (empty for codes without a phrase).
StatusText(status) ==
    CASE status = 200 -> "OK"
      [] status = 300 -> "Multiple Choices"
      [] status = 400 -> "Bad Request"
      [] status = 404 -> "Not Found"
      [] status = 500 -> "Internal Server Error"
      [] OTHER -> ""

Bodies == {"",
           "{\"text\":\"ok\"}",
           "{\"text\":5}",
           "{\"msg\":\"x\"}",
           "null",
           "[1]",
           "\"plain text report\"",
           "plain text report",
           "<html>Bad Gateway</html>"}

\* What fetch() rejects with when no HTTP response arrives.
TransportErrors == {"Failed to fetch", "Load failed"}

\* What response.text() rejects with when the body stream breaks.
BodyReadError == "network error"

\* The fetch of line 88 has been sent and has not settled.
NoOutcome == [kind |-> "pending"]

\* The fetch resolved with a response whose body has not been read yet.
Headers(s) == [kind |-> "headers", status |-> s, statusText |-> StatusText(s)]

\* Everything one fetch() can produce in the end: a rejection, or a response
\* whose body can or cannot be read.
FetchOutcomes ==
    {[kind |-> "reject", message |-> m] : m \in TransportErrors}
    \cup {[kind |-> "response", status |-> s, statusText |-> StatusText(s),
           readable |-> TRUE, body |-> b] : s \in Statuses, b \in Bodies}
    \cup {[kind |-> "response", status |-> s, statusText |-> StatusText(s),
           readable |-> FALSE, body |-> ""] : s \in Statuses}

----------------------------------------------------------------------------
(* JSON.parse and JSON.stringify on the bodies above.  A parsed value is a     *)
(* tagged record; an object is a sequence of <<key, value>> pairs.             *)

JUndefined == [t |-> "undefined"]

JNull == [t |-> "null"]

JNum(n) == [t |-> "number", v |-> n]

JStr(s) == [t |-> "string", v |-> s]

JArr(items) == [t |-> "array", v |-> items]

JObj(pairs) == [t |-> "object", v |-> pairs]

ParseOk(value) == [ok |-> TRUE, value |-> value]

ParseFail == [ok |-> FALSE]

\* JSON.parse(responseText): the parsed value, or a SyntaxError.
JSONParse(responseText) ==
    CASE responseText = "{\"text\":\"ok\"}" -> ParseOk(JObj(<< <<"text", JStr("ok")>> >>))
      [] responseText = "{\"text\":5}" -> ParseOk(JObj(<< <<"text", JNum(5)>> >>))
      [] responseText = "{\"msg\":\"x\"}" -> ParseOk(JObj(<< <<"msg", JStr("x")>> >>))
      [] responseText = "null" -> ParseOk(JNull)
      [] responseText = "[1]" -> ParseOk(JArr(<<JNum(1)>>))
      [] responseText = "\"plain text report\"" -> ParseOk(JStr("plain text report"))
      [] OTHER -> ParseFail

RECURSIVE Spaces(_)
Spaces(n) == IF n = 0 THEN "" ELSE " " \o Spaces(n - 1)

RECURSIVE JSONStringify(_, _)
RECURSIVE StringifyItems(_, _, _)
RECURSIVE StringifyPairs(_, _, _)

\* The items of an array from index i on, one per line at the given depth.
StringifyItems(items, i, depth) ==
    IF i > Len(items) THEN ""
    ELSE Spaces(2 * depth) \o JSONStringify(items[i], depth)
         \o (IF i < Len(items) THEN ",\n" ELSE "\n")
         \o StringifyItems(items, i + 1, depth)

\* The members of an object from index i on, one per line at the given depth.
StringifyPairs(pairs, i, depth) ==
    IF i > Len(pairs) THEN ""
    ELSE Spaces(2 * depth) \o "\"" \o pairs[i][1] \o "\": "
         \o JSONStringify(pairs[i][2], depth)
         \o (IF i < Len(pairs) THEN ",\n" ELSE "\n")
         \o StringifyPairs(pairs, i + 1, depth)

\* JSON.stringify(value, null, 2), for a value nested at the given depth.
JSONStringify(value, depth) ==
    CASE value.t = "null" -> "null"
      [] value.t = "number" -> ToString(value.v)
      [] value.t = "string" -> "\"" \o value.v \o "\""
      [] value.t = "array" ->
            IF Len(value.v) = 0 THEN "[]"
            ELSE "[\n" \o StringifyItems(value.v, 1, depth + 1)
                 \o Spaces(2 * depth) \o "]"
      [] value.t = "object" ->
            IF Len(value.v) = 0 THEN "{}"
            ELSE "{\n" \o StringifyPairs(value.v, 1, depth + 1)
                 \o Spaces(2 * depth) \o "}"

\* webhookResponse?.text : the member named key of an object, else undefined.
GetProp(value, key) ==
    IF value.t = "object" /\ \E i \in 1..Len(value.v) : value.v[i][1] = key
    THEN LET i == CHOOSE j \in 1..Len(value.v) :
                      /\ value.v[j][1] = key
                      /\ \A k \in (j + 1)..Len(value.v) : value.v[k][1] # key
         IN value.v[i][2]
    ELSE JUndefined

----------------------------------------------------------------------------
(* analyzeImage: the body of one loop iteration, as pure operators *)

\* errorText || '(no error body)'
OrNoBody(errorText) == IF errorText = "" THEN "(no error body)" ELSE errorText

\* line 97: the message of the error thrown for a 4xx response
RejectedMessage(response) ==
    "Analysis service rejected the request: " \o ToString(response.status) \o " "
    \o response.statusText \o " - " \o OrNoBody(response.body)

\* line 103: the message of the error thrown for any other non-2xx response
FailedMessage(response) ==
    "Webhook request failed: " \o ToString(response.status) \o " "
    \o response.statusText \o " - " \o OrNoBody(response.body)

\* line 109
EmptyMessage == "The analysis service returned a successful but empty response."

\* line 141: the message of the error thrown once the loop is over
ExhaustedMessage(last) ==
    "Failed to get a response from the analysis service after "
    \o ToString(MAX_RETRIES)
    \o " attempts. The service may be temporarily unavailable. Last error: "
    \o (IF last.null \/ last.message = "" THEN "Unknown error" ELSE last.message)

\* line 123
DiagnosticMessage(webhookResponse) ==
    "Could not find analysis text in the response. The service returned:\n\n"
    \o JSONStringify(webhookResponse, 0)

\* line 94
IsClientError(status) == status >= 400 /\ status < 500

\* Response.ok, read at line 100
IsOk(status) == status >= 200 /\ status <= 299

IsEmptyMutant(responseText) == FALSE

\* line 107: !responseText
IsEmpty(responseText) == responseText = ""

StructuredResultRawText(responseText, webhookResponse) == Return(responseText)

StructuredResultMutant(responseText, webhookResponse) ==
    LET analysisText == GetProp(webhookResponse, "text")
    IN  IF analysisText.t = "string"
        THEN Return(analysisText.v)
        ELSE Return(responseText)

\* lines 116-123: the result for a body that parsed as JSON
StructuredResult(responseText, webhookResponse) ==
    LET analysisText == GetProp(webhookResponse, "text")
    IN  IF analysisText.t = "string"
        THEN Return(analysisText.v)
        ELSE Return(DiagnosticMessage(webhookResponse))

PlainTextResultMutant(responseText) == Throw("Response was not valid JSON")

\* lines 124-127: the result for a body that JSON.parse refused
PlainTextResult(responseText) == Return(responseText)

\* lines 113-127: the inner try/catch
ParseBody(responseText) ==
    LET parsed == JSONParse(responseText)
    IN  IF parsed.ok
        THEN StructuredResult(responseText, parsed.value)
        ELSE PlainTextResult(responseText)

\* lines 88-127: what the try block of one attempt does with the outcome of
\* its fetch: the value it returns, or the error it throws into the catch of
\* line 128.
TryBody(outcome) ==
    IF outcome.kind = "reject" THEN Throw(outcome.message)
    ELSE IF IsClientError(outcome.status)
    THEN IF outcome.readable THEN Throw(RejectedMessage(outcome))
                             ELSE Throw(BodyReadError)
    ELSE IF ~IsOk(outcome.status)
    THEN IF outcome.readable THEN Throw(FailedMessage(outcome))
                             ELSE Throw(BodyReadError)
    ELSE IF ~outcome.readable THEN Throw(BodyReadError)
    ELSE IF IsEmpty(outcome.body) THEN Throw(EmptyMessage)
    ELSE ParseBody(outcome.body)

CaughtErrorMutant(previous, message) ==
    IF previous.null THEN [null |-> FALSE, message |-> message] ELSE previous

CaughtErrorStringified(previous, message) ==
    [null |-> FALSE, message |-> "TypeError: " \o message]

\* line 129: the value of lastError after the catch
CaughtError(previous, message) == [null |-> FALSE, message |-> message]

ShouldBackoffMutant(a) == a <= MAX_RETRIES

\* line 132
ShouldBackoff(a) == a < MAX_RETRIES

BackoffDelayMutant(a) == INITIAL_DELAY_MS * (2 ^ a)

\* line 133
BackoffDelay(a) == INITIAL_DELAY_MS * (2 ^ (a - 1))

LoopContinuesMutant(a) == a <= MAX_RETRIES + 1

\* line 83: the loop condition
LoopContinues(a) == a <= MAX_RETRIES

RECURSIVE JoinDots(_)
\* The segments of a file name joined with dots.
JoinDots(segments) ==
    IF Len(segments) = 0 THEN ""
    ELSE IF Len(segments) = 1 THEN segments[1]
    ELSE segments[1] \o "." \o JoinDots(Tail(segments))

\* line 47: file.name.substring(0, file.name.lastIndexOf('.')) + '.jpg'
\* (lastIndexOf is -1 for a name without a dot, and substring(0, -1) is "")
CompressedName(name) ==
    (IF Len(name) = 1 THEN "" ELSE JoinDots(SubSeq(name, 1, Len(name) - 1)))
    \o ".jpg"

\* lines 48-51
CompressedFile(file) == [name |-> CompressedName(file), type |-> "image/jpeg"]

\* lines 77-79
BuildFormData(compressedFile, lang) ==
    [image |-> compressedFile, filename |-> compressedFile.name, language |-> lang]

RequestBodyMutant(fd, a) == IF a > 1 THEN [fd EXCEPT !.language = "English"] ELSE fd

\* lines 88-91: the body of the request of attempt a is the formData object
\* built before the loop
RequestBody(fd, a) == fd

----------------------------------------------------------------------------
(* analyzeImage: the steps of one call, from one await to the next *)

\* lines 88-91: the fetch of attempt a is sent with the body fd; fs is the
\* history of the earlier fetches.
SendFetch(fs, fd, a) ==
    Append(fs, [attempt |-> a, body |-> RequestBody(fd, a), outcome |-> NoOutcome])

\* The history fs with the outcome o recorded for its last fetch.
Settled(fs, o) == [fs EXCEPT ![Len(fs)].outcome = o]

\* line 83, after "attempt++": the next iteration starts and runs up to its
\* await of fetch (line 88), or the loop is over and line 141 throws.
NextIteration(last, fs) ==
    /\ attempt' = attempt + 1
    /\ IF LoopContinues(attempt + 1)
       THEN /\ pc' = "fetch"
            /\ fetches' = SendFetch(fs, formData, attempt + 1)
            /\ UNCHANGED result
       ELSE /\ pc' = "done"
            /\ fetches' = fs
            /\ result' = Throw(ExhaustedMessage(last))

\* lines 128-137: the catch block, up to the await of sleep (line 135) or, on
\* the last attempt, on to the end of the loop.
Catch(message, fs) ==
    /\ lastError' = CaughtError(lastError, message)
    /\ IF ShouldBackoff(attempt)
       THEN /\ delays' = Append(delays, BackoffDelay(attempt))
            /\ pc' = "sleep"
            /\ fetches' = fs
            /\ UNCHANGED <<attempt, result>>
       ELSE /\ UNCHANGED delays
            /\ NextIteration(lastError', fs)

\* lines 69-74: the call starts and awaits compressImage(imageFile).
Call ==
    /\ op = "analyzeImage"
    /\ pc = "call"
    /\ compressCalls' = compressCalls + 1
    /\ pc' = "compress"
    /\ UNCHANGED <<op, imageFile, language, formData, attempt, lastError,
                   fetches, delays, result>>
    /\ UNCHANGED exceptAnalyze

AfterCompressRejectMutant == "call"

\* line 74: the await is outside the try of line 84, so a rejection leaves
\* analyzeImage.
AfterCompressReject == "done"

\* line 74 resolves: lines 75-91 build the body, enter the loop and send the
\* first fetch.
CompressResolve ==
    /\ op = "analyzeImage"
    /\ pc = "compress"
    /\ formData' = BuildFormData(CompressedFile(imageFile), language)
    /\ lastError' = Null
    /\ attempt' = 1
    /\ IF LoopContinues(1)
       THEN /\ pc' = "fetch"
            /\ fetches' = SendFetch(fetches, formData', 1)
            /\ UNCHANGED result
       ELSE /\ pc' = "done"
            /\ result' = Throw(ExhaustedMessage(Null))
            /\ UNCHANGED fetches
    /\ UNCHANGED <<op, compressCalls, imageFile, language, delays>>
    /\ UNCHANGED exceptAnalyze

\* line 74 rejects: the await rethrows, outside any try.
CompressReject ==
    /\ op = "analyzeImage"
    /\ pc = "compress"
    /\ \E e \in CompressErrors : result' = Throw(e)
    /\ pc' = AfterCompressReject
    /\ UNCHANGED <<op, compressCalls, imageFile, language, formData, attempt,
                   lastError, fetches, delays>>
    /\ UNCHANGED exceptAnalyze

\* line 88 settles: the fetch rejects and the catch of line 128 runs, or it
\* resolves with a response, whose status is looked at (lines 94, 100) and
\* whose body is asked for with response.text() (lines 95, 101, 106).
FetchSettles ==
    /\ op = "analyzeImage"
    /\ pc = "fetch"
    /\ \/ \E outcome \in FetchOutcomes :
             /\ outcome.kind = "reject"
             /\ Catch(TryBody(outcome).value, Settled(fetches, outcome))
       \/ \E s \in Statuses :
             /\ fetches' = Settled(fetches, Headers(s))
             /\ pc' = "text"
             /\ UNCHANGED <<attempt, lastError, delays, result>>
    /\ UNCHANGED <<op, compressCalls, imageFile, language, formData>>
    /\ UNCHANGED exceptAnalyze

\* lines 95-137: response.text() settles; the rest of the try block returns,
\* or throws into the catch of line 128.
TextSettles ==
    /\ op = "analyzeImage"
    /\ pc = "text"
    /\ \E outcome \in FetchOutcomes :
         /\ outcome.kind = "response"
         /\ outcome.status = fetches[Len(fetches)].outcome.status
         /\ LET r == TryBody(outcome)
                fs == Settled(fetches, outcome)
            IN  IF r.kind = "return"
                THEN /\ result' = r
                     /\ pc' = "done"
                     /\ fetches' = fs
                     /\ UNCHANGED <<attempt, lastError, delays>>
                ELSE Catch(r.value, fs)
    /\ UNCHANGED <<op, compressCalls, imageFile, language, formData>>
    /\ UNCHANGED exceptAnalyze

\* line 135: the timer of sleep(delay) fires and the loop goes on.
SleepDone ==
    /\ op = "analyzeImage"
    /\ pc = "sleep"
    /\ NextIteration(lastError, fetches)
    /\ UNCHANGED <<op, compressCalls, imageFile, language, formData, lastError,
                   delays>>
    /\ UNCHANGED exceptAnalyze

----------------------------------------------------------------------------
(* translateText *)

Texts == {"", "**Rust** on the leaf", "Soil is dry"}

\* What generateContent() can produce: a rejection, or a response whose text
\* getter gives a string or undefined.
Completions ==
    {[kind |-> "reject", hasText |-> FALSE, text |-> "quota exceeded"]}
    \cup {[kind |-> "response", hasText |-> FALSE, text |-> ""]}
    \cup {[kind |-> "response", hasText |-> TRUE, text |-> t] :
             t \in {"", "Soil is dry", "Mitti sukhi hai"}}

NoCompletion == [kind |-> "none", hasText |-> FALSE, text |-> ""]

\* line 159: the prompt
Prompt(t, lang) ==
    "Translate the following text to " \o lang
    \o ". Do not translate technical terms, botanical names, or proper nouns unless it is natural to do so in "
    \o lang
    \o ". Maintain the original markdown formatting (like **bold** text):\n\n---\n\n"
    \o t

\* lines 157-166: the rest of the try block once generateContent has settled
TranslateTry(c) ==
    IF c.kind = "reject" THEN Throw(c.text)
    ELSE IF ~c.hasText \/ c.text = ""
    THEN Throw("Translation service returned an empty response.")
    ELSE Return(c.text)

TranslateCatchMutant(t, err) == Throw(err)

\* lines 167-171: the catch block
TranslateCatch(t, err) == Return(t)

SkipsTranslationMutant(t) == FALSE

\* line 151: !text
SkipsTranslation(t) == t = ""

SettledPcMutant(r) == IF r.kind = "throw" THEN "call" ELSE "done"

\* lines 166-171: the function returns from the try or from the catch; no loop
\* leads back to the request.
SettledPc(r) == "done"

\* lines 151-160: the empty-text shortcut, or the request is sent.
TranslateCall ==
    /\ op = "translateText"
    /\ tpc = "call"
    /\ IF SkipsTranslation(text)
       THEN /\ tresult' = Return("")
            /\ tpc' = "done"
            /\ UNCHANGED requests
       ELSE /\ requests' = Append(requests,
                                  [model |-> "gemini-3-flash-preview",
                                   contents |-> Prompt(text, targetLanguage)])
            /\ tpc' = "await"
            /\ UNCHANGED tresult
    /\ UNCHANGED <<op, text, targetLanguage, completion>>
    /\ UNCHANGED exceptTranslate

\* line 156: the client's constructor throws (inside the try) before any
\* request is made.
TranslateConstructorThrows ==
    /\ op = "translateText"
    /\ tpc = "call"
    /\ ~SkipsTranslation(text)
    /\ tresult' = TranslateCatch(text, "An API Key must be set")
    /\ tpc' = "done"
    /\ UNCHANGED <<op, text, targetLanguage, requests, completion>>
    /\ UNCHANGED exceptTranslate

\* lines 157-171: generateContent settles.
TranslateSettle ==
    /\ op = "translateText"
    /\ tpc = "await"
    /\ \E c \in Completions :
         LET r == TranslateTry(c) IN
         /\ completion' = c
         /\ tresult' = IF r.kind = "return" THEN r ELSE TranslateCatch(text, r.value)
         /\ tpc' = SettledPc(r)
    /\ UNCHANGED <<op, text, targetLanguage, requests>>
    /\ UNCHANGED exceptTranslate

----------------------------------------------------------------------------
(* compressImage: one call with the default maxWidth, from the reading of the *)
(* file to the settled promise                                                *)

\* line 10: the default of the parameter maxWidth, which analyzeImage uses
DefaultMaxWidth == 1024

\* Image sizes: every small size, and sizes around and above maxWidth.
MaxDim == 40

LargeDims == {1023, 1024, 1025, 1536, 2047, 2048, 2049, 3024, 4032, 4096}

Dims == (1..MaxDim) \cup LargeDims

NoCanvas == [width |-> 0, height |-> 0]

MathRoundMutant(a, b) == a \div b

\* Math.round(a / b) for a >= 0 and b > 0: halves round up.
MathRound(a, b) == (2 * a + b) \div (2 * b)

ExceedsMutant(edge, maxWidth) == TRUE

\* lines 22 and 27: the long edge is larger than maxWidth
Exceeds(edge, maxWidth) == edge > maxWidth

\* lines 19-31: the size of the canvas for an image of w x h
TargetSize(w, h, maxWidth) ==
    IF w > h
    THEN IF Exceeds(w, maxWidth)
         THEN [width |-> maxWidth, height |-> MathRound(h * maxWidth, w)]
         ELSE [width |-> w, height |-> h]
    ELSE IF Exceeds(h, maxWidth)
         THEN [width |-> MathRound(w * maxWidth, h), height |-> maxWidth]
         ELSE [width |-> w, height |-> h]

\* lines 14-16: reader.onload, the file has been read and is given to the
\* image element.
ReaderLoaded ==
    /\ op = "compressImage"
    /\ cpc = "read"
    /\ cpc' = "load"
    /\ UNCHANGED <<op, width, height, canvas, cresult>>
    /\ UNCHANGED exceptCompress

\* line 60: reader.onerror, the file cannot be read.
ReaderError ==
    /\ op = "compressImage"
    /\ cpc = "read"
    /\ cresult' = Throw("[object ProgressEvent]")
    /\ cpc' = "done"
    /\ UNCHANGED <<op, width, height, canvas>>
    /\ UNCHANGED exceptCompress

\* lines 17-41: img.onload sizes the canvas, draws the image and asks for the
\* blob; without a 2d context the promise rejects.
ImageLoaded ==
    /\ op = "compressImage"
    /\ cpc = "load"
    /\ canvas' = TargetSize(width, height, DefaultMaxWidth)
    /\ \/ cpc' = "encode" /\ UNCHANGED cresult
       \/ cpc' = "done" /\ cresult' = Throw("Could not get canvas context")
    /\ UNCHANGED <<op, width, height>>
    /\ UNCHANGED exceptCompress

\* line 58: img.onerror, the file does not decode.
ImageError ==
    /\ op = "compressImage"
    /\ cpc = "load"
    /\ cresult' = Throw("[object Event]")
    /\ cpc' = "done"
    /\ UNCHANGED <<op, width, height, canvas>>
    /\ UNCHANGED exceptCompress

\* lines 42-53: the callback of toBlob gets the encoded image, or null.
BlobReady ==
    /\ op = "compressImage"
    /\ cpc = "encode"
    /\ \E blob \in {"jpeg", "null"} :
          cresult' = IF blob = "null"
                     THEN Throw("Canvas to Blob conversion failed")
                     ELSE Return("image/jpeg")
    /\ cpc' = "done"
    /\ UNCHANGED <<op, width, height, canvas>>
    /\ UNCHANGED exceptCompress

----------------------------------------------------------------------------
(* The App view (src/App.tsx): its state, the handlers of the user's actions  *)
(* and the continuations that run when a service call settles.  A report is   *)
(* recorded with the image it was produced for and the language it is in.     *)

\* The files the user can select.
Images == {"A", "B"}

NoImage == "none"

\* analysisResult = null
NullResult == [isNull |-> TRUE, image |-> "none", language |-> "none", empty |-> TRUE]

\* A report: a string produced for an image, in a language; it can be "".
Report(image, lang, empty) ==
    [isNull |-> FALSE, image |-> image, language |-> lang, empty |-> empty]

\* The truthiness of analysisResult (lines 38 and 166): neither null nor "".
Truthy(r) == ~r.isNull /\ ~r.empty

SubmitDisabledMutant == selectedImage = NoImage

\* line 151: disabled={!selectedImage || loading}
SubmitDisabled == selectedImage = NoImage \/ loading

\* lines 119, 130, 141: disabled={loading && !!analysisResult}
LanguageDisabled == loading /\ Truthy(analysisResult)

\* lines 27-31: the user selects a file or clears the selection.
HandleImageSelect ==
    /\ op = "App"
    /\ \E file \in Images \cup {NoImage} :
          /\ file = NoImage => selectedImage # NoImage
          /\ selectedImage' = file
    /\ analysisResult' = NullResult
    /\ error' = "none"
    /\ UNCHANGED <<op, loading, outputLanguage, calls, serviceFailed>>
    /\ UNCHANGED exceptApp

\* lines 33-49, up to the await: the user presses an output-language button
\* (rendered when an image is selected, lines 106-147).
HandleOutputLanguageChange ==
    /\ op = "App"
    /\ selectedImage # NoImage
    /\ ~LanguageDisabled
    /\ \E newLang \in Languages :
          /\ newLang # outputLanguage
          /\ outputLanguage' = newLang
          /\ IF Truthy(analysisResult)
             THEN /\ loading' = TRUE
                  /\ calls' = Append(calls, [fn |-> "translateText",
                                             image |-> analysisResult.image,
                                             language |-> newLang,
                                             text |-> analysisResult])
             ELSE UNCHANGED <<loading, calls>>
    /\ UNCHANGED <<op, selectedImage, analysisResult, error, serviceFailed>>
    /\ UNCHANGED exceptApp

\* lines 51-63, up to the await: the user presses Analyze.
HandleSubmit ==
    /\ op = "App"
    /\ ~SubmitDisabled
    /\ IF selectedImage = NoImage
       THEN /\ error' = "selectImageError"
            /\ UNCHANGED <<loading, analysisResult, calls>>
       ELSE /\ loading' = TRUE
            /\ error' = "none"
            /\ analysisResult' = NullResult
            /\ calls' = Append(calls, [fn |-> "analyzeImage",
                                       image |-> selectedImage,
                                       language |-> outputLanguage,
                                       text |-> NullResult])
    /\ UNCHANGED <<op, selectedImage, outputLanguage, serviceFailed>>
    /\ UNCHANGED exceptApp

\* The sequence without its i-th element.
RemoveAt(seq, i) == SubSeq(seq, 1, i - 1) \o SubSeq(seq, i + 1, Len(seq))

\* lines 63-71: a call of analyzeImage settles, with a report (possibly the
\* empty string) for its image in its language, or with an error.
AnalyzeSettles ==
    /\ op = "App"
    /\ \E i \in 1..Len(calls) :
          /\ calls[i].fn = "analyzeImage"
          /\ \/ /\ \E empty \in BOOLEAN :
                      analysisResult' = Report(calls[i].image, calls[i].language, empty)
                /\ UNCHANGED <<error, serviceFailed>>
             \/ /\ error' = "analysisFailedError"
                /\ serviceFailed' = TRUE
                /\ UNCHANGED analysisResult
          /\ calls' = RemoveAt(calls, i)
    /\ loading' = FALSE
    /\ UNCHANGED <<op, selectedImage, outputLanguage>>
    /\ UNCHANGED exceptApp

\* lines 41-47: a call of translateText settles; it never rejects, and gives
\* the text in the new language or, degraded, the text it was given.
TranslateSettles ==
    /\ op = "App"
    /\ \E i \in 1..Len(calls) :
          /\ calls[i].fn = "translateText"
          /\ \E translated \in BOOLEAN :
                /\ analysisResult' =
                      IF translated
                      THEN Report(calls[i].text.image, calls[i].language, FALSE)
                      ELSE calls[i].text
                /\ serviceFailed' = (serviceFailed \/ ~translated)
          /\ calls' = RemoveAt(calls, i)
    /\ loading' = FALSE
    /\ UNCHANGED <<op, selectedImage, error, outputLanguage>>
    /\ UNCHANGED exceptApp

----------------------------------------------------------------------------
(* The specification *)

InitAnalyze ==
    /\ op = "analyzeImage"
    /\ pc = "call"
    /\ imageFile \in ImageFiles
    /\ language \in Languages
    /\ tpc = "idle"
    /\ text = ""
    /\ targetLanguage = "English"
    /\ cpc = "idle"
    /\ width = 0
    /\ height = 0

InitTranslate ==
    /\ op = "translateText"
    /\ tpc = "call"
    /\ text \in Texts
    /\ targetLanguage \in Languages
    /\ pc = "idle"
    /\ imageFile = <<"leaf", "png">>
    /\ language = "English"
    /\ cpc = "idle"
    /\ width = 0
    /\ height = 0

\* The App as mounted (lines 9-15): nothing selected, nothing shown.
InitApp ==
    /\ op = "App"
    /\ pc = "idle"
    /\ imageFile = <<"leaf", "png">>
    /\ language = "English"
    /\ tpc = "idle"
    /\ text = ""
    /\ targetLanguage = "English"
    /\ cpc = "idle"
    /\ width = 0
    /\ height = 0

InitCompress ==
    /\ op = "compressImage"
    /\ cpc = "read"
    /\ width \in Dims
    /\ height \in Dims
    /\ pc = "idle"
    /\ imageFile = <<"leaf", "png">>
    /\ language = "English"
    /\ tpc = "idle"
    /\ text = ""
    /\ targetLanguage = "English"

Init ==
    /\ InitAnalyze \/ InitTranslate \/ InitCompress \/ InitApp
    /\ selectedImage = NoImage
    /\ analysisResult = NullResult
    /\ loading = FALSE
    /\ error = "none"
    /\ outputLanguage = "English"
    /\ calls = <<>>
    /\ serviceFailed = FALSE
    /\ canvas = NoCanvas
    /\ cresult = Pending
    /\ compressCalls = 0
    /\ formData = Null
    /\ attempt = 0
    /\ lastError = Null
    /\ fetches = <<>>
    /\ delays = <<>>
    /\ result = Pending
    /\ requests = <<>>
    /\ completion = NoCompletion
    /\ tresult = Pending

Next ==
    \/ Call
    \/ CompressResolve
    \/ CompressReject
    \/ FetchSettles
    \/ TextSettles
    \/ SleepDone
    \/ TranslateCall
    \/ TranslateConstructorThrows
    \/ TranslateSettle
    \/ ReaderLoaded
    \/ ReaderError
    \/ ImageLoaded
    \/ ImageError
    \/ BlobReady
    \/ HandleImageSelect
    \/ HandleOutputLanguageChange
    \/ HandleSubmit
    \/ AnalyzeSettles
    \/ TranslateSettles

Spec == Init /\ [][Next]_vars

\* The calls of analyzeImage, when every pending step eventually
\* happens: the events of FileReader, Image and toBlob behind compressImage
\* fire, every fetch and every response.text() settles, every timer of
\* sleep() fires.
NextAnalyze ==
    \/ Call
    \/ CompressResolve
    \/ CompressReject
    \/ FetchSettles
    \/ TextSettles
    \/ SleepDone

\* The calls of analyzeImage for one file, in each language.
InitOneFile ==
    /\ Init
    /\ op = "analyzeImage"
    /\ imageFile = <<"leaf", "png">>

FairSpec ==
    /\ InitOneFile
    /\ [][NextAnalyze]_vars
    /\ WF_vars(Call)
    /\ WF_vars(CompressResolve \/ CompressReject)
    /\ WF_vars(FetchSettles)
    /\ WF_vars(TextSettles)
    /\ WF_vars(SleepDone)

----------------------------------------------------------------------------
(* Vocabulary of the properties: how the specification classifies what a      *)
(* fetch got back, stated on the outcome itself.                              *)

\* What the k-th fetch of the call got back; NoOutcome while it is in flight,
\* Headers(status) while its body is being read.
Outcome(k) == fetches[k].outcome

\* A response with a status in 400..499 (whose body text arrives).
ClientRejection(o) == o.kind = "response" /\ o.status \in 400..499 /\ o.readable

\* A response with a status in 200..299.
Success2xx(o) == o.kind = "response" /\ o.status \in 200..299

\* A retryable failure as the specification defines it: a non-2xx status
\* outside 400..499, or a 2xx response with an empty body.
RetryableFailure(o) ==
    /\ o.kind = "response"
    /\ \/ o.status \notin 200..299 /\ o.status \notin 400..499
       \/ o.status \in 200..299 /\ o.readable /\ o.body = ""

\* A 2xx response with an empty body.
EmptySuccess(o) == Success2xx(o) /\ o.readable /\ o.body = ""

\* A 2xx response with a non-empty body.
BodiedSuccess(o) == Success2xx(o) /\ o.readable /\ o.body # ""

\* The error the catch of line 128 receives for a failed attempt.
AttemptError(o) == [null |-> FALSE, message |-> TryBody(o).value]

\* The delays of a call that slept n times.
ExpectedDelays(n) == SubSeq(<<1000, 2000>>, 1, n)

----------------------------------------------------------------------------
(* C1 and C2: client-side rejections *)

\* C1: if the response of any attempt has a status in 400..499, the call
\* raises without any further fetch and without any backoff delay after that
\* response (a 4xx on attempt 1 ends the call after 1 fetch and 0 delays).
C1_NoRetryAfterClientRejection ==
    \A k \in 1..Len(fetches) :
        ClientRejection(Outcome(k)) =>
            /\ pc = "done"
            /\ result.kind = "throw"
            /\ Len(fetches) = k
            /\ Len(delays) = k - 1

\* C2: when the call ends because of a 4xx response, the caller gets the
\* rejection error itself (status and body text), and the exhausted-retries
\* error is produced only when every attempt ended in a retryable failure.
C2_RejectionErrorDelivered ==
    pc = "done" =>
        /\ (Len(fetches) > 0 /\ ClientRejection(Outcome(Len(fetches)))) =>
              result = Throw(RejectedMessage(Outcome(Len(fetches))))
        /\ (Len(fetches) > 0 /\ result = Throw(ExhaustedMessage(lastError))) =>
              \A k \in 1..Len(fetches) : ~ClientRejection(Outcome(k))

----------------------------------------------------------------------------
(* C3 and C4: the attempt budget and the backoff *)

\* C3: whatever the server answers, one call performs at most MAX_RETRIES = 3
\* fetches, and the attempt counter takes only the values 1, 2, 3, in
\* increasing order: the k-th fetch is attempt k.
C3_AtMostThreeAttempts ==
    /\ Len(fetches) <= 3
    /\ \A k \in 1..Len(fetches) : fetches[k].attempt = k
    /\ pc \in {"fetch", "text", "sleep"} =>
          /\ attempt \in 1..3
          /\ attempt = Len(fetches)
    /\ \A k \in 1..(Len(fetches) - 1) : Outcome(k) \in FetchOutcomes

\* C3 witness: a call that used its whole budget.
C3_Witness ==
    /\ pc = "done"
    /\ Len(fetches) = 3
    /\ fetches[3].attempt = 3

\* C4: a backoff delay occurs only between a failed attempt k and attempt
\* k+1, it lasts INITIAL_DELAY_MS * 2^(k-1), and none follows the third
\* attempt or a successful one: the delays are a prefix of <<1000, 2000>>.
C4_BackoffBetweenAttemptsOnly ==
    /\ delays = ExpectedDelays(Len(delays))
    /\ Len(delays) <= 2
    /\ \A k \in 1..Len(delays) :
          /\ k <= Len(fetches)
          /\ k < 3
          /\ TryBody(Outcome(k)).kind = "throw"
    /\ Len(delays) <= Len(fetches)
    /\ Len(fetches) <= Len(delays) + 1
    /\ pc = "sleep" => Len(delays) = Len(fetches)
    /\ pc \in {"fetch", "text"} => Len(delays) = Len(fetches) - 1
    /\ (pc = "done" /\ Len(fetches) > 0) => Len(delays) = Len(fetches) - 1

\* C4 witness: a call that failed three times and slept 1000 then 2000 ms.
C4_Witness ==
    /\ pc = "done"
    /\ result.kind = "throw"
    /\ Len(fetches) = 3
    /\ delays = <<1000, 2000>>

----------------------------------------------------------------------------
(* C5 to C9: the classification of what an attempt got back *)

\* A body that is a JSON object with a string field text.
HasTextField(body) ==
    /\ JSONParse(body).ok
    /\ GetProp(JSONParse(body).value, "text").t = "string"

\* C5: if attempts 1..k-1 end in retryable failures and attempt k gets a 2xx
\* response whose body is a JSON object with a string field text, the call
\* returns that string after exactly k fetches and k-1 delays and fetches no
\* more; 500, 500, 200 {"text":"ok"} returns "ok" after 1000 and 2000 ms.
C5_SuccessAfterRetries ==
    \A k \in 1..Len(fetches) :
        ( /\ \A j \in 1..(k - 1) : RetryableFailure(Outcome(j))
          /\ BodiedSuccess(Outcome(k))
          /\ HasTextField(Outcome(k).body) ) =>
            /\ pc = "done"
            /\ result = Return(GetProp(JSONParse(Outcome(k).body).value, "text").v)
            /\ Outcome(k).body = "{\"text\":\"ok\"}" => result = Return("ok")
            /\ Len(fetches) = k
            /\ delays = ExpectedDelays(k - 1)

\* C5 witness: 500, 500, then 200 {"text":"ok"}.
C5_Witness ==
    /\ Len(fetches) = 3
    /\ Outcome(1).kind = "response" /\ Outcome(1).status = 500
    /\ Outcome(2).kind = "response" /\ Outcome(2).status = 500
    /\ Outcome(3).kind = "response" /\ Outcome(3).status = 200
    /\ Outcome(3).readable /\ Outcome(3).body = "{\"text\":\"ok\"}"
    /\ result = Return("ok")
    /\ delays = <<1000, 2000>>

\* C6: if all three attempts end in retryable failures, the call raises one
\* error, only after the third attempt, and that error states the attempt
\* count 3 and embeds the message of the third attempt's error.
C6_ExhaustedErrorCarriesLastCause ==
    (Len(fetches) > 0 /\ \A k \in 1..Len(fetches) : RetryableFailure(Outcome(k))) =>
        /\ result.kind # "return"
        /\ result.kind = "throw" <=> Len(fetches) = 3
        /\ Len(fetches) = 3 =>
              /\ pc = "done"
              /\ result = Throw(ExhaustedMessage(AttemptError(Outcome(3))))
              /\ ( /\ Outcome(3).status = 500
                   /\ Outcome(3).readable
                   /\ Outcome(3).body = "" ) =>
                     result.value =
                        "Failed to get a response from the analysis service after 3 attempts. The service may be temporarily unavailable. Last error: Webhook request failed: 500 Internal Server Error - (no error body)"

\* C6 witness: three retryable failures whose errors differ.
C6_Witness ==
    /\ pc = "done"
    /\ Len(fetches) = 3
    /\ \A k \in 1..3 : RetryableFailure(Outcome(k))
    /\ Outcome(1).status = 300
    /\ Outcome(2).status = 200
    /\ Outcome(3).status = 500 /\ Outcome(3).readable /\ Outcome(3).body = ""
    /\ result.kind = "throw"

\* C7: a 2xx response with an empty body is never returned as a success
\* value: the call goes on to the next attempt after the backoff delay or, on
\* attempt 3, raises the exhausted-retries error.
C7_EmptyBodyIsRetried ==
    \A k \in 1..Len(fetches) :
        EmptySuccess(Outcome(k)) =>
            /\ k = Len(fetches) => result.kind # "return"
            /\ k < 3 =>
                  /\ Len(delays) >= k
                  /\ k = Len(fetches) =>
                        /\ pc = "sleep"
                        /\ lastError.message = EmptyMessage
                  /\ k < Len(fetches) => fetches[k + 1].attempt = k + 1
            /\ k = 3 =>
                  /\ pc = "done"
                  /\ result = Throw(ExhaustedMessage([null |-> FALSE,
                                                      message |-> EmptyMessage]))

\* C7 witness: an empty 200 on attempt 1, and the fetch of attempt 2 is in
\* flight.
C7_Witness ==
    /\ Len(fetches) = 2
    /\ Outcome(1).kind = "response" /\ Outcome(1).status = 200
    /\ Outcome(1).readable /\ Outcome(1).body = ""
    /\ Outcome(2) = NoOutcome
    /\ pc = "fetch"
    /\ attempt = 2
    /\ delays = <<1000>>

\* C8: a 2xx response whose non-empty body is not valid JSON makes the call
\* return that body text unchanged on that attempt, with no retry and no
\* error.
C8_PlainTextBodyReturned ==
    \A k \in 1..Len(fetches) :
        (BodiedSuccess(Outcome(k)) /\ ~JSONParse(Outcome(k).body).ok) =>
            /\ pc = "done"
            /\ k = Len(fetches)
            /\ result = Return(Outcome(k).body)
            /\ Len(delays) = k - 1

\* C8 witness: 200 with the body "plain text report" on the first attempt.
C8_Witness ==
    /\ Len(fetches) = 1
    /\ Outcome(1).kind = "response" /\ Outcome(1).status = 200
    /\ Outcome(1).readable /\ Outcome(1).body = "plain text report"
    /\ result = Return("plain text report")

\* C9: a 2xx response whose non-empty body is valid JSON but no object with a
\* string field text ends the call successfully on that attempt with a
\* diagnostic string embedding the parsed payload: not an error, not a retry,
\* not the raw body text.
C9_ShapeMismatchDiagnostic ==
    \A k \in 1..Len(fetches) :
        ( /\ BodiedSuccess(Outcome(k))
          /\ JSONParse(Outcome(k).body).ok
          /\ ~HasTextField(Outcome(k).body) ) =>
            /\ pc = "done"
            /\ k = Len(fetches)
            /\ Len(delays) = k - 1
            /\ result.kind = "return"
            /\ result.value # Outcome(k).body
            /\ result.value =
                  "Could not find analysis text in the response. The service returned:\n\n"
                  \o JSONStringify(JSONParse(Outcome(k).body).value, 0)
            /\ Outcome(k).body = "{\"msg\":\"x\"}" =>
                  result.value =
                     "Could not find analysis text in the response. The service returned:\n\n{\n  \"msg\": \"x\"\n}"

\* C9 witness: 200 {"text":5} on the second attempt.
C9_Witness ==
    /\ Len(fetches) = 2
    /\ Outcome(2).kind = "response" /\ Outcome(2).status = 200
    /\ Outcome(2).readable /\ Outcome(2).body = "{\"text\":5}"
    /\ pc = "done"
    /\ result.kind = "return"

----------------------------------------------------------------------------
(* C10: translateText *)

\* The translation service produced a non-empty text.
UsableCompletion(c) == c.kind = "response" /\ c.hasText /\ c.text # ""

\* C10: translateText never raises: for every non-empty text and every
\* outcome of the service (error, or a completion whose text is empty or
\* missing) it returns the input text unchanged, and it returns the service's
\* text only when that text is non-empty.
C10_TranslateNeverRaises ==
    /\ tresult.kind # "throw"
    /\ (tpc = "done" /\ text # "") =>
          /\ tresult.kind = "return"
          /\ ~UsableCompletion(completion) => tresult.value = text
          /\ UsableCompletion(completion) => tresult.value = completion.text
          /\ tresult.value # text => UsableCompletion(completion)

\* C10 witness: the service call rejected and the input text came back.
C10_Witness ==
    /\ tpc = "done"
    /\ text = "Soil is dry"
    /\ completion.kind = "reject"
    /\ Len(requests) = 1
    /\ tresult = Return("Soil is dry")

\* C11: translateText called with the empty string returns the empty string
\* and performs zero calls to the translation service, for every target
\* language.
C11_EmptyTextShortCircuits ==
    (op = "translateText" /\ text = "") =>
        /\ requests = <<>>
        /\ completion = NoCompletion
        /\ tpc \in {"call", "done"}
        /\ tpc = "done" => tresult = Return("")

\* C11 witness: the call with the empty string and Bengali has returned.
C11_Witness ==
    /\ op = "translateText"
    /\ text = ""
    /\ targetLanguage = "Bengali"
    /\ tpc = "done"
    /\ tresult = Return("")
    /\ requests = <<>>

\* C12: one call of translateText issues at most one request to the
\* translation service: a failed or empty response is followed neither by a
\* second request nor by a backoff delay.
C12_SingleTranslationRequest ==
    op = "translateText" =>
        /\ Len(requests) <= 1
        /\ delays = <<>>
        /\ (completion # NoCompletion) => (tpc = "done" /\ Len(requests) = 1)

\* C12 witness: the single request got an empty completion and the call is over.
C12_Witness ==
    /\ op = "translateText"
    /\ tpc = "done"
    /\ Len(requests) = 1
    /\ completion.kind = "response"
    /\ completion.hasText
    /\ completion.text = ""

----------------------------------------------------------------------------
(* C13: failures of the image normalization *)

\* C13: if compressImage fails to decode or to encode the image,
\* analyzeImage raises that error at once: no fetch is made, no backoff delay
\* occurs and the normalization is not attempted a second time.
C13_CompressFailureSurfacesAtOnce ==
    /\ compressCalls <= 1
    /\ (op = "analyzeImage" /\ pc # "call") => compressCalls = 1
    /\ (pc = "done" /\ Len(fetches) = 0) =>
          /\ result.kind = "throw"
          /\ result.value \in CompressErrors
          /\ delays = <<>>
          /\ formData = Null
    /\ (result.kind = "throw" /\ result.value \in CompressErrors) =>
          /\ pc = "done"
          /\ fetches = <<>>
          /\ delays = <<>>

\* C13 witness: the image did not decode and the call is over.
C13_Witness ==
    /\ pc = "done"
    /\ compressCalls = 1
    /\ result = Throw("[object Event]")
    /\ fetches = <<>>
    /\ delays = <<>>

----------------------------------------------------------------------------
(* C14 and C15: the size of the compressed image *)

\* The larger and the smaller of two numbers.
Max(a, b) == IF a >= b THEN a ELSE b

Min(a, b) == IF a <= b THEN a ELSE b

\* The canvas has been sized for the image of this behaviour.
Sized == op = "compressImage" /\ cpc \in {"encode", "done"} /\ canvas # NoCanvas

\* C14: for every image of W x H with max(W, H) <= maxEdge (1024), the output
\* is exactly W x H: no upscaling, neither dimension changes.
C14_SmallImagesKeepTheirSize ==
    (Sized /\ Max(width, height) <= 1024) =>
        /\ canvas.width = width
        /\ canvas.height = height

\* C14 witness: an image of exactly 1024 x 40 keeps its size.
C14_Witness ==
    /\ Sized
    /\ width = 1024
    /\ height = 40
    /\ canvas = [width |-> 1024, height |-> 40]

\* C15: for every image with max(W, H) > maxEdge, the square case included,
\* the output's long edge is exactly maxEdge, its other edge is the short
\* edge scaled by maxEdge / max(W, H) and rounded to the nearest integer
\* (within 1 pixel of the exact value), and no edge exceeds maxEdge.
C15_LargeImagesScaledToMaxEdge ==
    (Sized /\ Max(width, height) > 1024) =>
        LET long == Max(width, height)
            short == Min(width, height)
            outLong == IF width > height THEN canvas.width ELSE canvas.height
            outShort == IF width > height THEN canvas.height ELSE canvas.width
            \* twice the distance, in units of 1/long, between outShort and
            \* the exact value short * 1024 / long
            error2 == 2 * (outShort * long - short * 1024)
        IN  /\ outLong = 1024
            /\ error2 <= long
            /\ -error2 <= long
            /\ canvas.width <= 1024
            /\ canvas.height <= 1024
            /\ width = height => canvas = [width |-> 1024, height |-> 1024]

\* C15 witness: 4032 x 3024 becomes 1024 x 768, and 2048 x 2048 is covered too.
C15_Witness ==
    /\ Sized
    /\ width = 4032
    /\ height = 3024
    /\ canvas = [width |-> 1024, height |-> 768]

----------------------------------------------------------------------------
(* C16: termination of analyzeImage *)

\* C16: when every fetch, every body read and every backoff timer eventually
\* completes, every call of analyzeImage eventually ends, by returning a
\* string or by raising an error, after at most 3 fetches and 2 delays.
C16_AnalyzeImageTerminates ==
    (op = "analyzeImage") ~>
        ( /\ pc = "done"
          /\ result.kind \in {"return", "throw"}
          /\ Len(fetches) <= 3
          /\ Len(delays) <= 2 )

\* C16 witness: a call that ended by returning on its second attempt, after
\* one delay.
C16_Witness ==
    /\ op = "analyzeImage"
    /\ pc = "done"
    /\ result.kind = "return"
    /\ Len(fetches) = 2
    /\ Len(delays) = 1

----------------------------------------------------------------------------
(* C17: the request payload *)

\* The payload of the call: the compressed image under its new name, and the
\* language.
Payload == BuildFormData(CompressedFile(imageFile), language)

\* C17: every attempt of one call sends the same payload: image, filename and
\* language are fixed before attempt 1 and no failed attempt or backoff delay
\* changes them; a failed attempt leaves behind only the last error (and the
\* attempt counter).
C17_SamePayloadEveryAttempt ==
    [][ op = "analyzeImage" =>
          /\ pc \in {"fetch", "text", "sleep"} =>
                /\ formData = Payload
                /\ formData' = formData
                /\ imageFile' = imageFile
                /\ language' = language
          /\ Len(fetches') \in {Len(fetches), Len(fetches) + 1}
          /\ \A k \in 1..Len(fetches) :
                /\ fetches'[k].body = fetches[k].body
                /\ fetches'[k].attempt = fetches[k].attempt
          /\ Len(fetches') = Len(fetches) + 1 =>
                /\ pc \in {"compress", "fetch", "text", "sleep"}
                /\ fetches'[Len(fetches')].body = Payload
                /\ imageFile = <<"leaf", "png">> =>
                      fetches'[Len(fetches')].body.filename = "leaf.jpg"
                /\ \A k \in 1..Len(fetches) :
                      fetches'[Len(fetches')].body = fetches[k].body
    ]_vars

\* C17 witness: three attempts in Hindi, each with the file leaf.jpg.
C17_Witness ==
    /\ Len(fetches) = 3
    /\ language = "Hindi"
    /\ \A k \in 1..3 :
          /\ fetches[k].body.language = "Hindi"
          /\ fetches[k].body.filename = "leaf.jpg"
          /\ fetches[k].body.image = [name |-> "leaf.jpg", type |-> "image/jpeg"]

----------------------------------------------------------------------------
(* C19: transport failures *)

\* The fetch rejected: no HTTP response arrived.
TransportFailure(o) == o.kind = "reject"

\* C19: a transport failure of fetch is treated like a retryable failure: it
\* uses up one of the 3 attempts, the backoff delay of its attempt number
\* follows unless it was attempt 3, and after three such failures the
\* exhausted-retries error with the last failure's message is raised.
C19_TransportFailureIsRetried ==
    /\ \A k \in 1..Len(fetches) :
          TransportFailure(Outcome(k)) =>
              /\ fetches[k].attempt = k
              /\ k = Len(fetches) => result.kind # "return"
              /\ k < 3 =>
                    /\ Len(delays) >= k
                    /\ delays[k] = ExpectedDelays(2)[k]
                    /\ k = Len(fetches) =>
                          /\ pc = "sleep"
                          /\ lastError = [null |-> FALSE, message |-> Outcome(k).message]
              /\ k = 3 => pc = "done" /\ Len(delays) = 2
    /\ ( /\ Len(fetches) = 3
         /\ \A k \in 1..3 : TransportFailure(Outcome(k)) ) =>
            /\ result.kind = "throw"
            /\ result.value =
                  "Failed to get a response from the analysis service after 3 attempts. The service may be temporarily unavailable. Last error: "
                  \o Outcome(3).message

\* C19 witness: three transport failures, the last with another message than
\* the first two.
C19_Witness ==
    /\ pc = "done"
    /\ Len(fetches) = 3
    /\ Outcome(1) = [kind |-> "reject", message |-> "Failed to fetch"]
    /\ Outcome(2) = [kind |-> "reject", message |-> "Failed to fetch"]
    /\ Outcome(3) = [kind |-> "reject", message |-> "Load failed"]
    /\ delays = <<1000, 2000>>
    /\ result.kind = "throw"

----------------------------------------------------------------------------
(* C18, C20 and C21: the App view *)

\* C18: in every interleaving of the user's actions with the completions of
\* service calls, at most one service call is outstanding: Analyze starts no
\* call while loading is true, and a language change starts no translation
\* while an analysis or a translation is outstanding.
C18_AtMostOneOutstandingCall ==
    op = "App" =>
        /\ Len(calls) <= 1
        /\ calls # <<>> <=> loading

\* C18 witness: a translation is outstanding, the user has selected another
\* image meanwhile, and the language buttons are enabled again.
C18_Witness ==
    /\ op = "App"
    /\ Len(calls) = 1
    /\ calls[1].fn = "translateText"
    /\ calls[1].image = "A"
    /\ selectedImage = "B"
    /\ loading
    /\ ~LanguageDisabled

\* C20: the report displayed always belongs to the image currently selected:
\* once the user selects another image or clears the selection, no report
\* produced for an earlier selection is displayed, even when its call was
\* still outstanding and completes afterwards.
C20_ReportBelongsToSelectedImage ==
    (op = "App" /\ Truthy(analysisResult)) => analysisResult.image = selectedImage

\* C21: as long as every service call has succeeded, a report that is
\* displayed while no call is outstanding is in the selected outputLanguage
\* (it was analysed in, or last translated into, that language), also when
\* the user changed the output language while an analysis was outstanding.
C21_ReportInSelectedLanguage ==
    ( /\ op = "App"
      /\ ~serviceFailed
      /\ Truthy(analysisResult)
      /\ calls = <<>> ) => analysisResult.language = outputLanguage

----------------------------------------------------------------------------
(* C22: the canvas of an elongated image *)

\* C22: for every image of at least 1 x 1, the canvas is at least 1 x 1,
\* whatever the aspect ratio: the rounded short edge never becomes 0.
C22_CanvasNeverEmpty ==
    (Sized /\ width >= 1 /\ height >= 1) =>
        /\ canvas.width >= 1
        /\ canvas.height >= 1

====
